---- MODULE Spec2Model ----
(***************************************************************************)
(* Model of the LTV service (src/12/ltv_service.py and                     *)
(* src/12/ltv_service_api.py): the Client connection wrapper, the          *)
(* validated value objects (PhoneNumber, CustomerID, LTV), the phone       *)
(* policy pipeline and the three record access functions on top of an      *)
(* Aerospike store.                                                        *)
(*                                                                         *)
(* The two source files are two variants of the same program; the          *)
(* variable `variant` says which of the two is running.                    *)
(***************************************************************************)
EXTENDS Integers, Sequences, FiniteSets, TLC

VARIABLES
    variant,    \* which module runs: "ltv_service" or "ltv_service_api"
    _config,    \* Client._config: option -> value
    _client,    \* Client._client: None, or the identity of the aerospike client
    created,    \* number of aerospike clients created so far (identities 1..created)
    connected,  \* state of the aerospike client Client._client refers to
    store,      \* the records of the Aerospike store
    recent,     \* history: per id, the arguments of the latest successful add_customer
    last        \* the latest call: operation, arguments, outcome

vars == <<variant, _config, _client, created, connected, store, recent, last>>

----------------------------------------------------------------------------
(* Bounds of the model *)

MaxId == 2
MaxClients == 2
MaxPolicies == 3
MaxPhoneLen == 2

(* Python's None for an object reference, and for an optional integer *)
None == 0
Absent == <<>>
Some(v) == <<v>>

PolicyNames == {"NonEmptyPhone", "OnlyPrintablePhone"}
Variants == {"ltv_service", "ltv_service_api"}

(* Inputs of the calls *)
CustomerIds == 0..MaxId
LTVs == {-1, 0, 1}
PrintableChars == {"5", " "}
NonPrintableChars == {"\t"}
Phones == { <<>>, <<"5">>, <<"5", " ">>, <<"\t">>, <<"5", "\t">> }
\* every string of at most MaxPhoneLen characters, for the policy checks
Chars == PrintableChars \cup NonPrintableChars
AllPhones == UNION { [1..n -> Chars] : n \in 0..MaxPhoneLen }
Pipelines == UNION { [1..n -> PolicyNames] : n \in 1..MaxPolicies }
OptionKeys == {"hosts", "policies"}
OptionValues == {"a", "b"}

----------------------------------------------------------------------------
(* Phone policies *)

\* str.isprintable(): every character is printable (true of the empty string)
isprintable(phone) == \A i \in 1..Len(phone) : phone[i] \in PrintableChars

NonEmptyPhone(phone) ==
    IF phone # <<>>
    THEN [result |-> TRUE, error_message |-> ""]
    ELSE [result |-> FALSE, error_message |-> "empty phone number"]

OnlyPrintablePhone(phone) ==
    IF isprintable(phone)
    THEN [result |-> TRUE, error_message |-> ""]
    ELSE [result |-> FALSE, error_message |-> "non-printable characters in phone number"]

\* policy.check(phone), dispatched on the policy object
PolicyCheck(policy, phone) ==
    IF policy = "NonEmptyPhone" THEN NonEmptyPhone(phone) ELSE OnlyPrintablePhone(phone)

\* PipelineLoop without the early return: a failure is remembered and the loop goes on
RECURSIVE PipelineLoop_no_stop(_, _, _, _)
PipelineLoop_no_stop(policies, phone, i, ran) ==
    IF i > Len(policies)
    THEN [result |-> TRUE, error_message |-> "", ran |-> ran]
    ELSE LET r == PolicyCheck(policies[i], phone)
             ran2 == Append(ran, policies[i])
             rest == PipelineLoop_no_stop(policies, phone, i + 1, ran2)
         IN  IF ~r.result
             THEN [result |-> r.result, error_message |-> r.error_message, ran |-> rest.ran]
             ELSE rest

\* PhonePolicyPipeline.check: the loop from policy number i on; `ran` lists
\* the policies whose check has been called
RECURSIVE PipelineLoop(_, _, _, _)
PipelineLoop(policies, phone, i, ran) ==
    IF i > Len(policies)
    THEN [result |-> TRUE, error_message |-> "", ran |-> ran]
    ELSE LET r == PolicyCheck(policies[i], phone)
             ran2 == Append(ran, policies[i])
         IN  IF ~r.result
             THEN [result |-> r.result, error_message |-> r.error_message, ran |-> ran2]
             ELSE PipelineLoop(policies, phone, i + 1, ran2)

PhonePolicyPipeline(policies, phone) == PipelineLoop(policies, phone, 1, <<>>)

PHONE_CHECK_POLICY == <<"NonEmptyPhone", "OnlyPrintablePhone">>

----------------------------------------------------------------------------
(* Value objects: exc is "ok" or the exception the constructor raises *)

PhoneNumber(phone, policy) ==
    LET c == PhonePolicyPipeline(policy, phone)
    IN  IF ~c.result
        THEN [exc |-> "WrongNumberFormat", message |-> c.error_message, phone |-> <<>>]
        ELSE [exc |-> "ok", message |-> "", phone |-> phone]

\* CustomerID rejecting only negative ids
CustomerID_allow_zero(customer_id) ==
    IF customer_id < 0
    THEN [exc |-> "WrongCustomerID", id |-> 0]
    ELSE [exc |-> "ok", id |-> customer_id]

CustomerID(customer_id) ==
    IF customer_id < 1
    THEN [exc |-> "WrongCustomerID", id |-> 0]
    ELSE [exc |-> "ok", id |-> customer_id]

\* Python values that reach LTV(): an int, or a value of another type (a
\* str), as a pair of its type and its content
PyInt(n) == <<"int", n>>
PyStr(digits) == <<"str", digits>>

\* LTV.__init__: `ltv < 0` raises TypeError when ltv is no number
LTV(ltv) ==
    IF ltv[1] # "int"
    THEN [exc |-> "TypeError", ltv |-> 0]
    ELSE IF ltv[2] < 0
    THEN [exc |-> "WrongLTV", ltv |-> 0]
    ELSE [exc |-> "ok", ltv |-> ltv[2]]

----------------------------------------------------------------------------
(* The Client wrapper *)

\* the error the handler accessor raises: ClientHandlerUnavailable in
\* ltv_service, AerospikeClientUnavailable in ltv_service_api
Unavailable ==
    IF variant = "ltv_service" THEN "ClientHandlerUnavailable"
    ELSE "AerospikeClientUnavailable"

\* aerospike.Client.is_connected() of the client self._client refers to
is_connected == connected = "connected"

is_available == _client # None

\* Client.is_closed: exc is "ok" (with the returned value) or the error raised
is_closed ==
    IF ~is_available THEN [exc |-> Unavailable, value |-> FALSE]
    ELSE IF is_connected THEN [exc |-> "ok", value |-> FALSE]
    ELSE [exc |-> "ok", value |-> TRUE]

\* Client.handler of ltv_service
handler_service ==
    IF _client # None /\ is_connected THEN "ok" ELSE "ClientHandlerUnavailable"

\* Client.handler of ltv_service_api
handler_api ==
    IF is_closed.exc # "ok" THEN is_closed.exc
    ELSE IF ~is_closed.value THEN "ok"
    ELSE "AerospikeClientUnavailable"

\* handler that does not ask is_connected()
handler_no_connected_check == IF _client # None THEN "ok" ELSE Unavailable

\* Client.handler: "ok" when it returns self._client, else the error raised
handler == IF variant = "ltv_service" THEN handler_service ELSE handler_api

\* a call that leaves a record of itself in `last`
Call(op, args, outcome, value, branch, issued) ==
    [op |-> op, args |-> args, outcome |-> outcome, value |-> value,
     branch |-> branch, issued |-> issued]

NoArgs == [none |-> TRUE]

\* with_option without the membership test
with_option_result_overwrite(config, option, value) ==
    [config |-> [k \in DOMAIN config \cup {option} |->
                    IF k = option THEN value ELSE config[k]],
     exc |-> "ok"]

\* Client.with_option: the configuration after the call and its outcome
with_option_result(config, option, value) ==
    IF option \in DOMAIN config
    THEN [config |-> config, exc |-> "ClientOptionExists"]
    ELSE [config |-> [k \in DOMAIN config \cup {option} |->
                         IF k = option THEN value ELSE config[k]],
          exc |-> "ok"]

\* Client.with_options: reduce() calls with_option for each item of the
\* dict in order; the first error ends the loop
RECURSIVE with_options_result(_, _, _)
with_options_result(config, options, i) ==
    IF i > Len(options) THEN [config |-> config, exc |-> "ok"]
    ELSE LET r == with_option_result(config, options[i][1], options[i][2])
         IN  IF r.exc # "ok" THEN r
             ELSE with_options_result(r.config, options, i + 1)

\* the dicts with_options is called with: items in insertion order, keys distinct
OptionDicts ==
    { o \in UNION { [1..n -> OptionKeys \X OptionValues] : n \in 0..Cardinality(OptionKeys) } :
        \A i, j \in 1..Len(o) : i # j => o[i][1] # o[j][1] }

\* the configurations a Client can be constructed with
Configs == UNION { [d -> OptionValues] : d \in SUBSET OptionKeys }

with_option(option, value) ==
    LET r == with_option_result(_config, option, value)
    IN  /\ _config' = r.config
        /\ last' = Call("with_option", [option |-> option, value |-> value],
                        r.exc, Absent, "", "none")
        /\ UNCHANGED <<variant, _client, created, connected, store, recent>>

with_options(options) ==
    LET r == with_options_result(_config, options, 1)
    IN  /\ _config' = r.config
        /\ last' = Call("with_options", [options |-> options], r.exc, Absent, "", "none")
        /\ UNCHANGED <<variant, _client, created, connected, store, recent>>

\* aerospike.client(self._config).connect() succeeds: a new client, connected
NewClient ==
    /\ created < MaxClients
    /\ created' = created + 1
    /\ _client' = created + 1
    /\ connected' = "connected"
    /\ last' = Call("connect", NoArgs, "ok", Absent, "new", "none")

\* aerospike.client(self._config).connect() raises aerospike ClientError
ConnectFails ==
    /\ last' = Call("connect", NoArgs, "ClientConnectError", Absent, "", "none")
    /\ UNCHANGED <<_client, created, connected>>

\* Client.connect of ltv_service
connect_service ==
    /\ variant = "ltv_service"
    /\ (NewClient \/ ConnectFails)
    /\ UNCHANGED <<variant, _config, store, recent>>

\* connect of ltv_service_api connecting anew when the connection is gone
connect_api_reconnect ==
    /\ variant = "ltv_service_api"
    /\ IF ~is_available \/ ~is_connected THEN NewClient \/ ConnectFails
       ELSE /\ last' = Call("connect", NoArgs, "ok", Absent, "same", "none")
            /\ UNCHANGED <<_client, created, connected>>
    /\ UNCHANGED <<variant, _config, store, recent>>

\* Client.connect of ltv_service_api
connect_api ==
    /\ variant = "ltv_service_api"
    /\ IF ~is_available THEN NewClient \/ ConnectFails
       ELSE IF is_connected
       THEN /\ last' = Call("connect", NoArgs, "ok", Absent, "same", "none")
            /\ UNCHANGED <<_client, created, connected>>
       ELSE /\ last' = Call("connect", NoArgs, "AerospikeClientUnavailable", Absent, "", "none")
            /\ UNCHANGED <<_client, created, connected>>
    /\ UNCHANGED <<variant, _config, store, recent>>

\* Client.close: `self.is_available` names the method without calling it,
\* so the test goes on to self._client.is_connected() also when
\* self._client is None
close ==
    /\ IF _client = None
       THEN /\ last' = Call("close", NoArgs, "AttributeError", Absent, "", "none")
            /\ UNCHANGED connected
       ELSE IF is_connected
       THEN /\ connected' = "closed"
            /\ last' = Call("close", NoArgs, "ok", Absent, "closed", "none")
       ELSE /\ last' = Call("close", NoArgs, "ok", Absent, "noop", "none")
            /\ UNCHANGED connected
    /\ UNCHANGED <<variant, _config, _client, created, store, recent>>

\* reading Client.handler
get_handler ==
    /\ last' = Call("handler", NoArgs, handler, Absent, "", "none")
    /\ UNCHANGED <<variant, _config, _client, created, connected, store, recent>>

\* calling Client.is_closed()
call_is_closed ==
    /\ last' = Call("is_closed", NoArgs, is_closed.exc, Absent,
                    IF is_closed.value THEN "True" ELSE "False", "none")
    /\ UNCHANGED <<variant, _config, _client, created, connected, store, recent>>

\* the connection of the current aerospike client drops: is_connected()
\* turns false without a call to this layer
Drop ==
    /\ _client # None /\ is_connected
    /\ connected' = "dropped"
    /\ last' = Call("drop", NoArgs, "ok", Absent, "", "none")
    /\ UNCHANGED <<variant, _config, _client, created, store, recent>>

----------------------------------------------------------------------------
(* The Aerospike store: a set of records [key, bins], key = <<namespace, set, id>> *)

NAMESPACE == "test"
SET == "customers"

Key(customer_id) == <<NAMESPACE, SET, customer_id>>

\* the ltv bin holds a Python value
Bins(phone, ltv) == [b \in {"phone", "ltv"} |-> IF b = "phone" THEN phone ELSE ltv]

RecordsAt(st, key) == { r \in st : r.key = key }

\* put that leaves an existing record as it is
put_keep_existing(st, key, bins) ==
    IF RecordsAt(st, key) # {} THEN st ELSE st \cup {[key |-> key, bins |-> bins]}

\* put that adds a record without replacing the one the key has
put_append(st, key, bins) == st \cup {[key |-> key, bins |-> bins]}

\* aerospike put(key, bins): creates the record, or updates the given bins
\* of the record the key already has
put(st, key, bins) ==
    LET old == RecordsAt(st, key)
        kept == IF old = {} THEN <<>> ELSE (CHOOSE r \in old : TRUE).bins
        merged == [b \in DOMAIN kept \cup DOMAIN bins |->
                      IF b \in DOMAIN bins THEN bins[b] ELSE kept[b]]
    IN  (st \ old) \cup {[key |-> key, bins |-> merged]}

\* bins.get(name): the bin's value, or None
bins_get(bins, name) == IF name \in DOMAIN bins THEN Some(bins[name]) ELSE Absent

\* aerospike select(key, ["ltv"]): RecordNotFound, or the record's ltv bin
select(st, key) ==
    LET found == RecordsAt(st, key)
    IN  IF found = {} THEN [exc |-> "RecordNotFound", ltv |-> Absent]
        ELSE [exc |-> "ok", ltv |-> bins_get((CHOOSE r \in found : TRUE).bins, "ltv")]

\* query without the where() predicate
query_results_all(st, namespace, set_, phone) ==
    { r \in st : r.key[1] = namespace /\ r.key[2] = set_ }

\* query(namespace, set).select("ltv").where(equals("phone", phone)).results():
\* the records of the set whose phone bin equals phone
query_results(st, namespace, set_, phone) ==
    { r \in st : /\ r.key[1] = namespace /\ r.key[2] = set_
                 /\ "phone" \in DOMAIN r.bins /\ r.bins["phone"] = phone }

----------------------------------------------------------------------------
(* Record access functions *)

\* a read's answer: branch names the return statement taken
Answer(exc, value, branch, issued) ==
    [exc |-> exc, value |-> value, branch |-> branch, issued |-> issued]

\* the tail shared by both reads: ltv is bins.get("ltv")
ltv_answer(ltv, issued) ==
    IF ltv = Absent THEN Answer("ok", Absent, "missing_ltv", issued)
    ELSE IF LTV(ltv[1]).exc = "WrongLTV" THEN Answer("ok", Absent, "broken_ltv", issued)
    \* any other exception of LTV() is caught by neither read
    ELSE IF LTV(ltv[1]).exc # "ok" THEN Answer(LTV(ltv[1]).exc, Absent, "", issued)
    ELSE Answer("ok", Some(LTV(ltv[1]).ltv), "found", issued)

_add_customer(customer_id, phone_number, lifetime_value) ==
    IF handler # "ok"
    THEN [exc |-> handler, store |-> store, issued |-> "none", id |-> customer_id.id]
    ELSE [exc |-> "ok", id |-> customer_id.id,
          store |-> put(store, Key(customer_id.id),
                        Bins(phone_number.phone, PyInt(lifetime_value.ltv))),
          issued |-> "put"]

_get_ltv_by_id(customer_id) ==
    IF handler # "ok" THEN Answer(handler, Absent, "", "none")
    ELSE LET s == select(store, Key(customer_id.id))
         IN  IF s.exc = "RecordNotFound" THEN Answer("ok", Absent, "not_found", "select")
             ELSE ltv_answer(s.ltv, "select")

\* first is results[0], one of the query's results when there is any
_get_ltv_by_phone(phone_number, first) ==
    IF handler # "ok" THEN Answer(handler, Absent, "", "none")
    ELSE LET results == query_results(store, NAMESPACE, SET, phone_number.phone)
         IN  IF results = {} THEN Answer("ok", Absent, "not_found", "query")
             ELSE ltv_answer(bins_get(first.bins, "ltv"), "query")

\* the records results[0] can be: the order of a query's results is the store's
FirstOf(results) == IF results = {} THEN {[bins |-> <<>>]} ELSE results

add_customer(customer_id, phone_number, lifetime_value) ==
    LET phone == PhoneNumber(phone_number, PHONE_CHECK_POLICY)
        id_ == CustomerID(customer_id)
        ltv == LTV(PyInt(lifetime_value))
        args == [id |-> customer_id, phone |-> phone_number, ltv |-> lifetime_value]
        raised == IF phone.exc # "ok" THEN phone.exc
                  ELSE IF id_.exc # "ok" THEN id_.exc
                  ELSE IF ltv.exc # "ok" THEN ltv.exc
                  ELSE "ok"
    IN  /\ IF raised # "ok"
           THEN /\ last' = Call("add_customer", args, raised, Absent, "", "none")
                /\ UNCHANGED <<store, recent>>
           ELSE LET r == _add_customer(id_, phone, ltv)
                IN  /\ store' = r.store
                    /\ recent' = IF r.exc = "ok"
                                 THEN [recent EXCEPT ![customer_id] =
                                          Some([phone |-> phone_number, ltv |-> lifetime_value])]
                                 ELSE recent
                    /\ last' = Call("add_customer", args, r.exc,
                                    \* ltv_service_api returns the id, ltv_service None
                                    IF r.exc = "ok" /\ variant = "ltv_service_api"
                                    THEN Some(r.id) ELSE Absent,
                                    "", r.issued)
        /\ UNCHANGED <<variant, _config, _client, created, connected>>

get_ltv_by_id(customer_id) ==
    LET id_ == CustomerID(customer_id)
        args == [id |-> customer_id]
    IN  /\ IF id_.exc # "ok"
           THEN last' = Call("get_ltv_by_id", args, id_.exc, Absent, "", "none")
           ELSE LET a == _get_ltv_by_id(id_)
                IN  last' = Call("get_ltv_by_id", args, a.exc, a.value, a.branch, a.issued)
        /\ UNCHANGED <<variant, _config, _client, created, connected, store, recent>>

get_ltv_by_phone(phone_number) ==
    LET phone == PhoneNumber(phone_number, PHONE_CHECK_POLICY)
        args == [phone |-> phone_number]
    IN  /\ IF phone.exc # "ok"
           THEN last' = Call("get_ltv_by_phone", args, phone.exc, Absent, "", "none")
           ELSE \E first \in FirstOf(query_results(store, NAMESPACE, SET, phone.phone)) :
                    LET a == _get_ltv_by_phone(phone, first)
                    IN  last' = Call("get_ltv_by_phone", args, a.exc, a.value, a.branch, a.issued)
        /\ UNCHANGED <<variant, _config, _client, created, connected, store, recent>>

----------------------------------------------------------------------------
(* The policy pipeline and the PhoneNumber constructor, called on their own *)

pipeline_check(policies, phone) ==
    LET c == PhonePolicyPipeline(policies, phone)
    IN  /\ last' = [op |-> "check", args |-> [policies |-> policies, phone |-> phone],
                    result |-> c.result, error_message |-> c.error_message, ran |-> c.ran]
        /\ UNCHANGED <<variant, _config, _client, created, connected, store, recent>>

new_PhoneNumber(phone) ==
    LET n == PhoneNumber(phone, PHONE_CHECK_POLICY)
    IN  /\ last' = [op |-> "PhoneNumber", args |-> [phone |-> phone],
                    outcome |-> n.exc, message |-> n.message, phone |-> n.phone]
        /\ UNCHANGED <<variant, _config, _client, created, connected, store, recent>>

----------------------------------------------------------------------------
(* Specifications *)

\* Client(): no aerospike client yet, an empty store
Init ==
    /\ variant \in Variants
    /\ _config = <<>>
    /\ _client = None
    /\ created = 0
    /\ connected = "none"
    /\ store = {}
    /\ recent = [i \in 1..MaxId |-> Absent]
    /\ last = Call("init", NoArgs, "ok", Absent, "", "none")

connect == connect_service \/ connect_api

\* the service on one client
Next ==
    \/ connect
    \/ close
    \/ Drop
    \/ \E i \in CustomerIds, p \in Phones, v \in LTVs : add_customer(i, p, v)
    \/ \E i \in CustomerIds : get_ltv_by_id(i)
    \/ \E p \in Phones : get_ltv_by_phone(p)

Spec == Init /\ [][Next]_vars

\* Client(config): the wrapper alone
InitClient ==
    /\ variant \in Variants
    /\ _config \in Configs
    /\ _client = None
    /\ created = 0
    /\ connected = "none"
    /\ store = {}
    /\ recent = [i \in 1..MaxId |-> Absent]
    /\ last = Call("init", NoArgs, "ok", Absent, "", "none")

NextClient ==
    \/ connect
    \/ close
    \/ Drop
    \/ get_handler
    \/ call_is_closed
    \/ \E k \in OptionKeys, v \in OptionValues : with_option(k, v)
    \/ \E o \in OptionDicts : with_options(o)

SpecClient == InitClient /\ [][NextClient]_vars

\* the policy checks, on every pipeline and phone string within the bounds
NextPipeline ==
    \/ \E pl \in Pipelines, p \in AllPhones : pipeline_check(pl, p)
    \/ \E p \in AllPhones : new_PhoneNumber(p)

SpecPipeline == Init /\ [][NextPipeline]_vars

\* the reads on a store that other writers of the set have written to:
\* records with or without a phone bin, with or without an ltv bin, the ltv
\* an int of any sign or a value that is no number (the store has no schema)
ForeignPhones == { p \in Phones : PhoneNumber(p, PHONE_CHECK_POLICY).exc = "ok" }
ForeignLTVs == { PyInt(v) : v \in LTVs } \cup { PyStr("7") }
ForeignBins ==
    { Bins(p, v) : p \in ForeignPhones, v \in ForeignLTVs }
    \cup { [b \in {"phone"} |-> p] : p \in ForeignPhones }
    \cup { [b \in {"ltv"} |-> v] : v \in ForeignLTVs }
AnyStores ==
    { { [key |-> Key(i), bins |-> f[i]] : i \in d } :
        f \in [1..MaxId -> ForeignBins], d \in SUBSET (1..MaxId) }

InitAnyStore ==
    /\ variant \in Variants
    /\ _config = <<>>
    /\ _client = None
    /\ created = 0
    /\ connected = "none"
    /\ store \in AnyStores
    /\ recent = [i \in 1..MaxId |-> Absent]
    /\ last = Call("init", NoArgs, "ok", Absent, "", "none")

NextReads ==
    \/ connect
    \/ close
    \/ Drop
    \/ \E i \in CustomerIds : get_ltv_by_id(i)
    \/ \E p \in Phones : get_ltv_by_phone(p)

SpecAnyStore == InitAnyStore /\ [][NextReads]_vars

----------------------------------------------------------------------------
(* Properties *)

\* the connection is live: a client exists and is_connected() holds
Live == _client # None /\ connected = "connected"

Reads == {"get_ltv_by_id", "get_ltv_by_phone"}
ValidationErrors == {"WrongNumberFormat", "WrongCustomerID", "WrongLTV"}

MalformedPhone(p) == p = <<>> \/ \E i \in 1..Len(p) : p[i] \in NonPrintableChars

\* the ids whose latest successful add_customer wrote phone p
Holders(p) == { i \in 1..MaxId : recent[i] # Absent /\ recent[i][1].phone = p }

C1_Step ==
    (last'.op = "get_ltv_by_id" /\ last'.args.id >= 1 /\ Live)
    => /\ last'.outcome = "ok"
       /\ last'.value = IF recent[last'.args.id] = Absent THEN Absent
                        ELSE Some(recent[last'.args.id][1].ltv)

\* C1: on a live connection, get_ltv_by_id(id) with id >= 1 returns the ltv
\* of the latest successful add_customer for that id, and None, without
\* raising, when there was none.
C1_GetByIdReturnsLatest == [][C1_Step]_vars

C1_Witness ==
    /\ last.op = "get_ltv_by_id" /\ Live /\ last.outcome = "ok"
    /\ last.args.id >= 1
    /\ recent[last.args.id] # Absent
    /\ last.value = Some(recent[last.args.id][1].ltv)
    /\ \E j \in 1..MaxId : /\ recent[j] # Absent
                           /\ recent[j][1].ltv # recent[last.args.id][1].ltv

C2_Step ==
    (last'.op = "get_ltv_by_phone" /\ ~MalformedPhone(last'.args.phone) /\ Live)
    => /\ last'.outcome = "ok"
       /\ (last'.value = Absent) <=> (Holders(last'.args.phone) = {})
       /\ Holders(last'.args.phone) # {}
            => \E i \in Holders(last'.args.phone) : last'.value = Some(recent[i][1].ltv)

\* C2: on a live connection, get_ltv_by_phone(phone) returns None exactly
\* when no record currently stores the phone, and otherwise the ltv of one
\* of the records whose current phone is the argument (the phone and ltv of
\* a record being those of the latest add_customer for its id).
C2_GetByPhoneReturnsHolder == [][C2_Step]_vars

C2_Witness ==
    /\ last.op = "get_ltv_by_phone" /\ Live /\ last.outcome = "ok"
    /\ Cardinality(Holders(last.args.phone)) = 2
    /\ \E i, j \in Holders(last.args.phone) :
          /\ recent[i][1].ltv # recent[j][1].ltv
          /\ last.value = Some(recent[i][1].ltv)

\* a read answers `value` as the claim has it for record r: None when r has
\* no ltv or a negative one, the stored ltv otherwise (an answer of the
\* model is None or an int, so it equals no stored value of another type)
Yields(r, value) ==
    IF "ltv" \notin DOMAIN r.bins THEN value = Absent
    ELSE IF r.bins["ltv"][1] # "int" THEN FALSE
    ELSE IF r.bins["ltv"][2] < 0 THEN value = Absent
    ELSE value = Some(r.bins["ltv"][2])

C3_Step ==
    /\ (last'.op = "get_ltv_by_id" /\ Live)
       => IF last'.args.id < 1 THEN last'.outcome = "WrongCustomerID"
          ELSE /\ last'.outcome = "ok"
               /\ IF \E r \in store : r.key = Key(last'.args.id)
                  THEN \E r \in store : r.key = Key(last'.args.id) /\ Yields(r, last'.value)
                  ELSE last'.value = Absent
    /\ (last'.op = "get_ltv_by_phone" /\ Live)
       => IF MalformedPhone(last'.args.phone) THEN last'.outcome = "WrongNumberFormat"
          ELSE /\ last'.outcome = "ok"
               /\ LET m == { r \in store : "phone" \in DOMAIN r.bins
                                           /\ r.bins["phone"] = last'.args.phone }
                  IN  IF m = {} THEN last'.value = Absent
                      ELSE \E r \in m : Yields(r, last'.value)

\* C3: on a live connection a read with well-formed input never raises,
\* whatever records the store holds: no record, a record without an ltv bin
\* and a record with a negative ltv give None, any other record gives its ltv;
\* a read raises only for id < 1 or an empty or non-printable phone.
C3_ReadsNeverRaiseOnStore == [][C3_Step]_vars

C4_Step ==
    last'.op = "add_customer"
    => /\ (last'.outcome \in ValidationErrors)
          <=> \/ MalformedPhone(last'.args.phone)
              \/ last'.args.id < 1
              \/ last'.args.ltv < 0
       /\ last'.outcome \in ValidationErrors
          => /\ store' = store
             /\ last'.issued = "none"

\* C4: add_customer raises WrongNumberFormat, WrongCustomerID or WrongLTV
\* exactly when the phone is empty or has a non-printable character, or
\* id < 1, or ltv < 0, in every connection state; it then issues no put and
\* leaves the store as it was.
C4_AddCustomerValidation == [][C4_Step]_vars

C4_Witness ==
    /\ last.op = "add_customer" /\ last.outcome = "WrongLTV"
    /\ connected = "closed" /\ store # {}

C5_Step ==
    (/\ last'.op \in {"add_customer", "get_ltv_by_id", "get_ltv_by_phone"}
     /\ last'.outcome \notin ValidationErrors
     /\ ~Live)
    => /\ last'.outcome = IF variant = "ltv_service" THEN "ClientHandlerUnavailable"
                          ELSE "AerospikeClientUnavailable"
       /\ last'.issued = "none"
       /\ store' = store

\* C5: with well-formed inputs, add_customer, get_ltv_by_id and
\* get_ltv_by_phone fail with the handler-unavailable error of their module
\* whenever the client was never connected or its connection is closed or
\* dropped; no store operation is issued and the store is unchanged.
C5_UnavailableHandler == [][C5_Step]_vars

C5_Witness ==
    /\ last.op = "add_customer" /\ connected = "dropped" /\ store # {}
    /\ last.outcome \in {"ClientHandlerUnavailable", "AerospikeClientUnavailable"}

C6_Step ==
    last'.op = "close"
    => /\ last'.outcome = "ok"
       /\ connected' # "connected"
       /\ last.op = "close" => <<_client, created, connected>>' = <<_client, created, connected>>

\* C6: close() returns without raising in every client state (never
\* connected, connected, already closed), and a second consecutive close()
\* changes nothing.
C6_CloseIdempotent == [][C6_Step]_vars

C7_Step ==
    /\ last'.op = "with_option"
       => IF last'.args.option \in DOMAIN _config
          THEN last'.outcome = "ClientOptionExists" /\ _config' = _config
          ELSE /\ last'.outcome = "ok"
               /\ DOMAIN _config' = DOMAIN _config \cup {last'.args.option}
               /\ _config'[last'.args.option] = last'.args.value
    /\ \A k \in DOMAIN _config : k \in DOMAIN _config' /\ _config'[k] = _config[k]

\* C7: with_option(k, v) raises ClientOptionExists when k is in the
\* configuration (from the constructor or from an earlier call) and leaves
\* the configuration as it was; otherwise it adds k -> v. No call ever
\* changes the value of a key the configuration has.
C7_WithOptionNeverOverwrites == [][C7_Step]_vars

C7_Witness ==
    /\ last.op = "with_option" /\ last.outcome = "ClientOptionExists"
    /\ _config[last.args.option] # last.args.value

\* whether a policy accepts a phone, stated on the string
Accepts(policy, phone) ==
    IF policy = "NonEmptyPhone" THEN Len(phone) > 0
    ELSE \A i \in 1..Len(phone) : phone[i] \notin NonPrintableChars

Reason(policy) ==
    IF policy = "NonEmptyPhone" THEN "empty phone number"
    ELSE "non-printable characters in phone number"

\* C8: PhonePolicyPipeline.check runs the policies in order and stops at
\* the first that fails, returning (False, its reason) without running the
\* later ones, and (True, "") when all pass; PhoneNumber with the configured
\* pipeline rejects the empty string with "empty phone number", a non-empty
\* string with a non-printable character with "non-printable characters in
\* phone number", and keeps every other string unchanged.
C8_PipelineStopsAtFirstFailure ==
    /\ last.op = "check"
       => LET pl == last.args.policies
              ph == last.args.phone
              failing == { i \in 1..Len(pl) : ~Accepts(pl[i], ph) }
          IN  IF failing = {}
              THEN last.result /\ last.error_message = "" /\ last.ran = pl
              ELSE LET first == CHOOSE i \in failing : \A j \in failing : i <= j
                   IN  /\ ~last.result
                       /\ last.error_message = Reason(pl[first])
                       /\ last.ran = SubSeq(pl, 1, first)
    /\ last.op = "PhoneNumber"
       => IF last.args.phone = <<>>
          THEN last.outcome = "WrongNumberFormat" /\ last.message = "empty phone number"
          ELSE IF \E i \in 1..Len(last.args.phone) : last.args.phone[i] \in NonPrintableChars
          THEN /\ last.outcome = "WrongNumberFormat"
               /\ last.message = "non-printable characters in phone number"
          ELSE last.outcome = "ok" /\ last.phone = last.args.phone

C8_Witness ==
    /\ last.op = "check" /\ ~last.result
    /\ last.error_message = "non-printable characters in phone number"
    /\ Len(last.ran) = 2 /\ Len(last.args.policies) = 3

\* the store holds only what add_customer can have written
StoreWellFormed ==
    /\ \A r1, r2 \in store : r1.key = r2.key => r1 = r2
    /\ \A r \in store :
          /\ r.key[1] = NAMESPACE /\ r.key[2] = SET /\ r.key[3] >= 1
          /\ DOMAIN r.bins = {"phone", "ltv"}
          /\ ~MalformedPhone(r.bins["phone"])
          /\ r.bins["ltv"][1] = "int" /\ r.bins["ltv"][2] >= 0

C9_Step ==
    /\ StoreWellFormed'
    /\ last'.op \in Reads
       => /\ store' = store
          /\ last'.branch \notin {"missing_ltv", "broken_ltv"}

\* C9: from an empty store, after any calls of add_customer, get_ltv_by_id
\* and get_ltv_by_phone, the store has at most one record per id, every
\* record has an id >= 1 and exactly the bins phone (non-empty, printable)
\* and ltv (>= 0); the reads never change the store and never take their
\* missing-ltv or broken-ltv branch.
C9_StoreInvariant == [][C9_Step]_vars

C9_Witness ==
    /\ Cardinality(store) = MaxId
    /\ last.op = "get_ltv_by_phone" /\ last.branch = "found"
    /\ \E r \in store : r.bins["phone"] # last.args.phone

C10_Step ==
    \* an aerospike client is created by connect() alone
    /\ (created' # created \/ _client' # _client) => last'.op = "connect"
    /\ (variant = "ltv_service_api" /\ last'.op = "connect")
       => IF _client = None
          THEN \/ last'.outcome = "ok" /\ _client' = created + 1 /\ created' = created + 1
               \/ last'.outcome = "ClientConnectError" /\ _client' = None
          ELSE IF connected = "connected"
          THEN last'.outcome = "ok" /\ _client' = _client /\ created' = created
          ELSE last'.outcome = "AerospikeClientUnavailable"
    \* ltv_service_api: once closed or dropped, never available again
    /\ (variant = "ltv_service_api" /\ _client # None /\ connected # "connected")
       => /\ _client' = _client /\ connected' = connected
          /\ handler' = "AerospikeClientUnavailable"
    \* ltv_service: every successful connect() makes a new aerospike client
    /\ (variant = "ltv_service" /\ last'.op = "connect" /\ last'.outcome = "ok")
       => _client' = created + 1 /\ created' = created + 1 /\ connected' = "connected"

\* C10: in ltv_service_api the aerospike client is created by connect()
\* alone; connect() on a connected client returns without replacing the
\* aerospike client; connect() on a closed or dropped client raises
\* AerospikeClientUnavailable, and from then on no connect or close makes
\* the handler available. In ltv_service every successful connect() creates
\* a new aerospike client.
C10_ConnectionLifecycle == [][C10_Step]_vars

C10_Witness ==
    /\ variant = "ltv_service_api" /\ last.op = "connect"
    /\ last.outcome = "AerospikeClientUnavailable" /\ connected = "closed"

====
